---- MODULE Spec2Model ----
(***************************************************************************)
(* Access-control core of qrvault: the express handlers of                 *)
(* server/routes.ts over the in-memory record store of server/storage.ts   *)
(* (MemStorage).  Each handler is one atomic action (a request runs to     *)
(* completion before the next one starts); the document handlers are also  *)
(* given await by await, for requests that interleave.  The response of    *)
(* the last request is kept in the variable last.                          *)
(***************************************************************************)
EXTENDS Integers, Sequences, FiniteSets, TLC

\* ------------------------------------------------------------------ bounds
MaxUsers == 2
MaxDocs == 2
MaxReqs == 2

\* ------------------------------------------------------------ input domains
\* JavaScript undefined for a string-valued field
UNDEF == "undefined"
\* JavaScript undefined for an id-valued field (ids start at 1)
NoId == 0
\* no response was sent (the async handler's promise rejected)
NoResponse == 0

Sessions == {"s1", "s2"}
Pins == {"1111", "2222"}
Files == {"f1", "f2"}
Names == {"a", "b"}
\* req.body.name: absent, empty, or a name
BodyNames == {UNDEF, ""} \cup Names
\* req.body.status of PATCH /api/access-requests/:id
BodyStatuses == {UNDEF, "approved", "denied", "bogus"}
\* req.body.requestedDocuments when present
DocLists == {<< >>, <<"all">>}
\* req.headers["user-agent"]
UserAgents == {UNDEF, "ua"}
\* req.body.location
Locations == {UNDEF}

UserIds == 1..(MaxUsers + 1)
DocIds == 1..(MaxDocs + 1)
ReqIds == 1..(MaxReqs + 1)

VARIABLES
  users,           \* MemStorage.users, in insertion order
  documents,       \* MemStorage.documents, in insertion order
  accessRequests,  \* MemStorage.accessRequests, in insertion order
  currentId,       \* MemStorage.currentId
  sessions,        \* per visitor: req.user and req.session.verifiedUserId
  last,            \* the last request and its response
  everVerified,    \* history: targets whose PIN each session has verified
  lastVerified,    \* history: target of each session's latest successful verification
  inflight         \* per visitor: the handler that is waiting for the store

history == <<everVerified, lastVerified>>
vars == <<users, documents, accessRequests, currentId, sessions, last, history, inflight>>

\* --------------------------------------------------------- Map operations
\* A JavaScript Map is modelled as the sequence of its values in insertion
\* order; every value carries its key in the field id.

\* Map.prototype.has
MapHas(m, id) == \E i \in 1..Len(m) : m[i].id = id

\* Map.prototype.get of a present key
MapGet(m, id) == m[CHOOSE i \in 1..Len(m) : m[i].id = id]

\* mutant of MapSet: a present key is removed and inserted again at the end
MapSet_Reinsert(m, v) == Append(SelectSeq(m, LAMBDA w : w.id # v.id), v)

\* Map.prototype.set: a present key keeps its position, a new key goes last
MapSet(m, v) ==
  IF MapHas(m, v.id)
    THEN [i \in 1..Len(m) |-> IF m[i].id = v.id THEN v ELSE m[i]]
    ELSE Append(m, v)

\* Map.prototype.delete
MapDelete(m, id) == SelectSeq(m, LAMBDA v : v.id # id)

\* ------------------------------------------------------------- auth.ts
\* hashing of a PIN (one-way, deterministic for the comparison)
Hash(pin) == <<"hash", pin>>

\* compareHash(supplied, stored)
compareHash(supplied, stored) == Hash(supplied) = stored

\* ---------------------------------------------------------- MemStorage
getUser(id) == IF MapHas(users, id) THEN MapGet(users, id) ELSE [id |-> NoId]

getDocuments(userId) == SelectSeq(documents, LAMBDA doc : doc.userId = userId)

\* getDocument(id); the record with id NoId stands for undefined
getDocument(id) ==
  IF MapHas(documents, id) THEN MapGet(documents, id)
  ELSE [id |-> NoId, userId |-> NoId, name |-> UNDEF, content |-> <<"base64", UNDEF>>,
        contentType |-> UNDEF]

createDocument(docs, id, document) ==
  MapSet(docs, [id |-> id, userId |-> document.userId, name |-> document.name,
                content |-> document.content, contentType |-> document.contentType])

\* updateDocument(id, {name}): {...document, ...updates}
updateDocument(docs, id, name) ==
  MapSet(docs, [MapGet(docs, id) EXCEPT !.name = name])

deleteDocument(docs, id) == MapDelete(docs, id)

getAccessRequests(userId) == SelectSeq(accessRequests, LAMBDA req : req.userId = userId)

createAccessRequest(reqs, id, request) ==
  MapSet(reqs, [id |-> id, userId |-> request.userId,
                requestedDocuments |-> request.requestedDocuments,
                requesterInfo |-> request.requesterInfo, status |-> request.status])

\* mutant of updateAccessRequest: the update is applied to every record
updateAccessRequest_NoWhere(reqs, id, status) ==
  [i \in 1..Len(reqs) |-> [reqs[i] EXCEPT !.status = status]]

\* updateAccessRequest(id, {status}): {...request, ...updates}
updateAccessRequest(reqs, id, status) ==
  MapSet(reqs, [MapGet(reqs, id) EXCEPT !.status = status])

\* ------------------------------------------------------------ conversions
\* Buffer.toString("base64") and Buffer.from(s, "base64")
toBase64(buffer) == <<"base64", buffer>>
fromBase64(s) == s[2]

\* file.mimetype
mimetype(file) == IF file = "f1" THEN "application/pdf" ELSE "image/png"

\* ---------------------------------------------------------------- state
Response(op, s, arg, status, body) ==
  [op |-> op, sess |-> s, arg |-> arg, status |-> status, body |-> body]

\* no handler of the visitor is waiting
Idle == [op |-> "idle"]

Init ==
  /\ users = << >>
  /\ documents = << >>
  /\ accessRequests = << >>
  /\ currentId = [users |-> 1, documents |-> 1, accessRequests |-> 1]
  /\ sessions = [s \in Sessions |-> [user |-> NoId, verifiedUserId |-> NoId]]
  /\ last = Response("none", "s1", NoId, NoResponse, << >>)
  /\ everVerified = [s \in Sessions |-> {}]
  /\ lastVerified = [s \in Sessions |-> NoId]
  /\ inflight = [s \in Sessions |-> Idle]

\* ------------------------------------------------ registration and login
\* POST /api/register: createUser with the hashed PIN
Register(s, pin) ==
  /\ currentId.users <= MaxUsers
  /\ users' = MapSet(users, [id |-> currentId.users, pin |-> Hash(pin)])
  /\ currentId' = [currentId EXCEPT !.users = @ + 1]
  /\ last' = Response("register", s, currentId.users, 201, << >>)
  /\ UNCHANGED <<documents, accessRequests, sessions, history, inflight>>

\* POST /api/login: sets the authenticated identity of the session
Login(s, userId, pin) ==
  /\ IF getUser(userId).id # NoId /\ compareHash(pin, getUser(userId).pin)
       THEN /\ sessions' = [sessions EXCEPT ![s].user = userId]
            /\ last' = Response("login", s, userId, 200, << >>)
       ELSE /\ sessions' = sessions
            /\ last' = Response("login", s, userId, 401, << >>)
  /\ UNCHANGED <<users, documents, accessRequests, currentId, history, inflight>>

\* POST /api/logout: clears the authenticated identity of the session
Logout(s) ==
  /\ sessions' = [sessions EXCEPT ![s].user = NoId]
  /\ last' = Response("logout", s, NoId, 200, << >>)
  /\ UNCHANGED <<users, documents, accessRequests, currentId, history, inflight>>

\* ------------------------------------------------------ PIN verification
\* mutant of VerifyPin: a failed verification drops the elevation
VerifyPin_ClearOnFail(s, userId, pin) ==
  LET user == getUser(userId) IN
  /\ IF user.id = NoId
       THEN /\ last' = Response("verifyPin", s, <<userId, pin>>, 404, [message |-> "User not found"])
            /\ UNCHANGED <<sessions, history>>
       ELSE LET isValid == compareHash(pin, user.pin) IN
            /\ sessions' = [sessions EXCEPT ![s].verifiedUserId = IF isValid THEN userId ELSE NoId]
            /\ everVerified' = IF isValid
                                 THEN [everVerified EXCEPT ![s] = @ \cup {userId}]
                                 ELSE everVerified
            /\ lastVerified' = IF isValid
                                 THEN [lastVerified EXCEPT ![s] = userId]
                                 ELSE lastVerified
            /\ last' = Response("verifyPin", s, <<userId, pin>>, 200, [isValid |-> isValid])
  /\ UNCHANGED <<users, documents, accessRequests, currentId, inflight>>

\* mutant of VerifyPin: the session is elevated whatever the comparison says
VerifyPin_ElevateAlways(s, userId, pin) ==
  LET user == getUser(userId) IN
  /\ IF user.id = NoId
       THEN /\ last' = Response("verifyPin", s, <<userId, pin>>, 404, [message |-> "User not found"])
            /\ UNCHANGED <<sessions, history>>
       ELSE LET isValid == compareHash(pin, user.pin) IN
            /\ sessions' = [sessions EXCEPT ![s].verifiedUserId = userId]
            /\ everVerified' = IF isValid
                                 THEN [everVerified EXCEPT ![s] = @ \cup {userId}]
                                 ELSE everVerified
            /\ lastVerified' = IF isValid
                                 THEN [lastVerified EXCEPT ![s] = userId]
                                 ELSE lastVerified
            /\ last' = Response("verifyPin", s, <<userId, pin>>, 200, [isValid |-> isValid])
  /\ UNCHANGED <<users, documents, accessRequests, currentId, inflight>>

\* mutant of VerifyPin: an unknown target is answered like a wrong PIN
VerifyPin_NotFoundAsInvalid(s, userId, pin) ==
  LET user == getUser(userId) IN
  /\ IF user.id = NoId
       THEN /\ last' = Response("verifyPin", s, <<userId, pin>>, 200, [isValid |-> FALSE])
            /\ UNCHANGED <<sessions, history>>
       ELSE LET isValid == compareHash(pin, user.pin) IN
            /\ sessions' = IF isValid
                             THEN [sessions EXCEPT ![s].verifiedUserId = userId]
                             ELSE sessions
            /\ everVerified' = IF isValid
                                 THEN [everVerified EXCEPT ![s] = @ \cup {userId}]
                                 ELSE everVerified
            /\ lastVerified' = IF isValid
                                 THEN [lastVerified EXCEPT ![s] = userId]
                                 ELSE lastVerified
            /\ last' = Response("verifyPin", s, <<userId, pin>>, 200, [isValid |-> isValid])
  /\ UNCHANGED <<users, documents, accessRequests, currentId, inflight>>

\* POST /api/verify-pin/:userId
VerifyPin(s, userId, pin) ==
  LET user == getUser(userId) IN
  /\ IF user.id = NoId
       THEN /\ last' = Response("verifyPin", s, <<userId, pin>>, 404, [message |-> "User not found"])
            /\ UNCHANGED <<sessions, history>>
       ELSE LET isValid == compareHash(pin, user.pin) IN
            /\ sessions' = IF isValid
                             THEN [sessions EXCEPT ![s].verifiedUserId = userId]
                             ELSE sessions
            /\ everVerified' = IF isValid
                                 THEN [everVerified EXCEPT ![s] = @ \cup {userId}]
                                 ELSE everVerified
            /\ lastVerified' = IF isValid
                                 THEN [lastVerified EXCEPT ![s] = userId]
                                 ELSE lastVerified
            /\ last' = Response("verifyPin", s, <<userId, pin>>, 200, [isValid |-> isValid])
  /\ UNCHANGED <<users, documents, accessRequests, currentId, inflight>>

\* ------------------------------------------------------------ documents
\* JavaScript truthiness of req.body.name
Truthy(name) == name # UNDEF /\ name # ""

\* existingDocs.some((doc) => doc.name === name)
NameTaken(userId, name) ==
  \E i \in 1..Len(getDocuments(userId)) : getDocuments(userId)[i].name = name

\* GET /api/documents/:userId (no authentication)
ListDocumentsOf(s, userId) ==
  /\ last' = Response("listDocumentsOf", s, userId, 200, getDocuments(userId))
  /\ UNCHANGED <<users, documents, accessRequests, currentId, sessions, history, inflight>>

\* GET /api/documents
ListDocuments(s) ==
  /\ last' = IF sessions[s].user = NoId
               THEN Response("listDocuments", s, NoId, 401, << >>)
               ELSE Response("listDocuments", s, NoId, 200, getDocuments(sessions[s].user))
  /\ UNCHANGED <<users, documents, accessRequests, currentId, sessions, history, inflight>>

\* POST /api/documents; file = UNDEF when the request carries no file
Upload(s, file, name) ==
  LET user == sessions[s].user
      id == currentId.documents
      document == [userId |-> user, name |-> name, content |-> toBase64(file),
                   contentType |-> mimetype(file)]
  IN
  /\ IF user = NoId
       THEN /\ last' = Response("upload", s, name, 401, [message |-> "Not authenticated"])
            /\ UNCHANGED <<documents, currentId>>
     ELSE IF file = UNDEF
       THEN /\ last' = Response("upload", s, name, 400, [message |-> "No file uploaded"])
            /\ UNCHANGED <<documents, currentId>>
     ELSE IF ~Truthy(name)
       THEN /\ last' = Response("upload", s, name, 400, [message |-> "Document name is required"])
            /\ UNCHANGED <<documents, currentId>>
     ELSE IF NameTaken(user, name)
       THEN /\ last' = Response("upload", s, name, 400,
                                [message |-> "Document with this name already exists"])
            /\ UNCHANGED <<documents, currentId>>
     ELSE /\ id <= MaxDocs
          /\ documents' = createDocument(documents, id, document)
          /\ currentId' = [currentId EXCEPT !.documents = @ + 1]
          /\ last' = Response("upload", s, name, 201, MapGet(documents', id))
  /\ UNCHANGED <<users, accessRequests, sessions, history, inflight>>

\* PATCH /api/documents/:id
Rename(s, id, name) ==
  LET user == sessions[s].user
      document == getDocument(id)
  IN
  /\ IF user = NoId
       THEN /\ last' = Response("rename", s, <<id, name>>, 401, << >>)
            /\ UNCHANGED documents
     ELSE IF document.id = NoId \/ document.userId # user
       THEN /\ last' = Response("rename", s, <<id, name>>, 404, << >>)
            /\ UNCHANGED documents
     ELSE IF Truthy(name) /\ name # document.name /\ NameTaken(user, name)
       THEN /\ last' = Response("rename", s, <<id, name>>, 400,
                                [message |-> "Document with this name already exists"])
            /\ UNCHANGED documents
     ELSE /\ documents' = updateDocument(documents, document.id, name)
          /\ last' = Response("rename", s, <<id, name>>, 200, MapGet(documents', id))
  /\ UNCHANGED <<users, accessRequests, currentId, sessions, history, inflight>>

\* mutant of Delete: the read rule (login or PIN elevation) guards the delete
Delete_ReadRule(s, id) ==
  LET document == getDocument(id) IN
  /\ IF document.id = NoId
         \/ (sessions[s].user # document.userId /\ sessions[s].verifiedUserId # document.userId)
       THEN /\ last' = Response("delete", s, id, 404, << >>)
            /\ UNCHANGED documents
       ELSE /\ documents' = deleteDocument(documents, document.id)
            /\ last' = Response("delete", s, id, 204, << >>)
  /\ UNCHANGED <<users, accessRequests, currentId, sessions, history, inflight>>

\* DELETE /api/documents/:id
Delete(s, id) ==
  LET user == sessions[s].user
      document == getDocument(id)
  IN
  /\ IF user = NoId
       THEN /\ last' = Response("delete", s, id, 401, << >>)
            /\ UNCHANGED documents
     ELSE IF document.id = NoId \/ document.userId # user
       THEN /\ last' = Response("delete", s, id, 404, << >>)
            /\ UNCHANGED documents
     ELSE /\ documents' = deleteDocument(documents, document.id)
          /\ last' = Response("delete", s, id, 204, << >>)
  /\ UNCHANGED <<users, accessRequests, currentId, sessions, history, inflight>>

\* mutants of hasAccess: without the PIN path; with an elevation for any target
hasAccess_OwnerOnly(session, document) == session.user = document.userId

hasAccess_AnyElevation(session, document) ==
  \/ session.user = document.userId
  \/ session.verifiedUserId # NoId

\* mutant of hasAccess: an approved access request for the owner grants access
hasAccess_ApprovedRequest(session, document) ==
  \/ session.user = document.userId
  \/ session.verifiedUserId = document.userId
  \/ \E i \in 1..Len(accessRequests) :
       /\ accessRequests[i].userId = document.userId
       /\ accessRequests[i].status = "approved"

\* hasAccess of the view and download handlers: req.user?.id === document?.userId
\* || req.session.verifiedUserId === document?.userId (undefined is NoId)
hasAccess(session, document) ==
  \/ session.user = document.userId
  \/ session.verifiedUserId = document.userId

\* mutant of View: a missing document is answered 404
View_NotFound(s, id) ==
  LET document == getDocument(id) IN
  /\ last' = IF document.id = NoId
               THEN Response("view", s, id, 404, [message |-> "Not found"])
             ELSE IF ~hasAccess(sessions[s], document)
               THEN Response("view", s, id, 401, [message |-> "Unauthorized access"])
               ELSE Response("view", s, id, 200,
                             [content |-> fromBase64(document.content),
                              contentType |-> document.contentType])
  /\ UNCHANGED <<users, documents, accessRequests, currentId, sessions, history, inflight>>

\* GET /api/documents/:id/view
View(s, id) ==
  LET document == getDocument(id) IN
  /\ last' = IF document.id = NoId \/ ~hasAccess(sessions[s], document)
               THEN Response("view", s, id, 401, [message |-> "Unauthorized access"])
               ELSE Response("view", s, id, 200,
                             [content |-> fromBase64(document.content),
                              contentType |-> document.contentType])
  /\ UNCHANGED <<users, documents, accessRequests, currentId, sessions, history, inflight>>

\* GET /api/documents/:id/download
Download(s, id) ==
  LET document == getDocument(id) IN
  /\ last' = IF document.id = NoId \/ ~hasAccess(sessions[s], document)
               THEN Response("download", s, id, 401, [message |-> "Unauthorized access"])
               ELSE Response("download", s, id, 200,
                             [content |-> fromBase64(document.content),
                              contentType |-> document.contentType,
                              filename |-> document.name])
  /\ UNCHANGED <<users, documents, accessRequests, currentId, sessions, history, inflight>>

\* ------------------------------------------------------- access requests
\* the bodies of POST /api/access-requests: userId NoId and hasDocs FALSE
\* stand for an absent field; status is a field the handler never reads
RequestBodies ==
  [userId : {NoId} \cup UserIds, hasDocs : BOOLEAN, requestedDocuments : DocLists,
   status : {UNDEF, "approved"}, location : Locations]

\* mutant of CreateAccessRequest: a status in the body is stored as it is
CreateAccessRequest_BodyStatus(s, body, userAgent) ==
  LET id == currentId.accessRequests
      request == [userId |-> body.userId,
                  requestedDocuments |-> body.requestedDocuments,
                  requesterInfo |->
                    [deviceInfo |-> IF userAgent = UNDEF THEN "Unknown device" ELSE userAgent,
                     location |-> body.location],
                  status |-> IF body.status = UNDEF THEN "pending" ELSE body.status]
  IN
  /\ IF body.userId = NoId \/ ~body.hasDocs
       THEN /\ last' = Response("createAccessRequest", s, body, 400, << >>)
            /\ UNCHANGED <<accessRequests, currentId>>
       ELSE /\ id <= MaxReqs
            /\ accessRequests' = createAccessRequest(accessRequests, id, request)
            /\ currentId' = [currentId EXCEPT !.accessRequests = @ + 1]
            /\ last' = Response("createAccessRequest", s, body, 201, MapGet(accessRequests', id))
  /\ UNCHANGED <<users, documents, sessions, history, inflight>>

\* POST /api/access-requests (no authentication)
CreateAccessRequest(s, body, userAgent) ==
  LET id == currentId.accessRequests
      request == [userId |-> body.userId,
                  requestedDocuments |-> body.requestedDocuments,
                  requesterInfo |->
                    [deviceInfo |-> IF userAgent = UNDEF THEN "Unknown device" ELSE userAgent,
                     location |-> body.location],
                  status |-> "pending"]
  IN
  /\ IF body.userId = NoId \/ ~body.hasDocs
       THEN /\ last' = Response("createAccessRequest", s, body, 400, << >>)
            /\ UNCHANGED <<accessRequests, currentId>>
       ELSE /\ id <= MaxReqs
            /\ accessRequests' = createAccessRequest(accessRequests, id, request)
            /\ currentId' = [currentId EXCEPT !.accessRequests = @ + 1]
            /\ last' = Response("createAccessRequest", s, body, 201, MapGet(accessRequests', id))
  /\ UNCHANGED <<users, documents, sessions, history, inflight>>

\* GET /api/access-requests
ListAccessRequests(s) ==
  /\ last' = IF sessions[s].user = NoId
               THEN Response("listAccessRequests", s, NoId, 401, << >>)
               ELSE Response("listAccessRequests", s, NoId, 200,
                             getAccessRequests(sessions[s].user))
  /\ UNCHANGED <<users, documents, accessRequests, currentId, sessions, history, inflight>>

\* mutant of Transition: a request that is no longer pending is not changed
Transition_TerminalGuard(s, id, status) ==
  /\ IF sessions[s].user = NoId
       THEN /\ last' = Response("transition", s, <<id, status, UNDEF>>, 401, << >>)
            /\ UNCHANGED accessRequests
     ELSE IF ~MapHas(accessRequests, id)
       THEN /\ last' = Response("transition", s, <<id, status, UNDEF>>, NoResponse, << >>)
            /\ UNCHANGED accessRequests
     ELSE IF MapGet(accessRequests, id).status # "pending"
       THEN /\ last' = Response("transition", s, <<id, status, MapGet(accessRequests, id).status>>,
                                409, << >>)
            /\ UNCHANGED accessRequests
     ELSE /\ accessRequests' = updateAccessRequest(accessRequests, id, status)
          /\ last' = Response("transition", s, <<id, status, MapGet(accessRequests, id).status>>,
                              200, MapGet(accessRequests', id))
  /\ UNCHANGED <<users, documents, currentId, sessions, history, inflight>>

\* PATCH /api/access-requests/:id; the third component of last.arg is an
\* observation, not a part of the request: the status the addressed request
\* had when the handler ran (UNDEF when it did not reach a stored request)
Transition(s, id, status) ==
  /\ IF sessions[s].user = NoId
       THEN /\ last' = Response("transition", s, <<id, status, UNDEF>>, 401, << >>)
            /\ UNCHANGED accessRequests
     ELSE IF ~MapHas(accessRequests, id)
       \* updateAccessRequest throws "Access request not found"
       THEN /\ last' = Response("transition", s, <<id, status, UNDEF>>, NoResponse, << >>)
            /\ UNCHANGED accessRequests
     ELSE /\ accessRequests' = updateAccessRequest(accessRequests, id, status)
          /\ last' = Response("transition", s, <<id, status, MapGet(accessRequests, id).status>>,
                              200, MapGet(accessRequests', id))
  /\ UNCHANGED <<users, documents, currentId, sessions, history, inflight>>

\* --------------------------------------------- handlers, await by await
\* The document handlers split at their awaits of the store: between two
\* steps of a handler, steps of other requests run.  A waiting handler keeps
\* the values it has read (req.user, the loaded document, req.body.name).

\* POST /api/documents up to await storage.getDocuments and the name check
UploadCheck(s, file, name) ==
  LET user == sessions[s].user IN
  /\ inflight[s] = Idle
  /\ IF user = NoId
       THEN /\ last' = Response("upload", s, name, 401, [message |-> "Not authenticated"])
            /\ UNCHANGED inflight
     ELSE IF file = UNDEF
       THEN /\ last' = Response("upload", s, name, 400, [message |-> "No file uploaded"])
            /\ UNCHANGED inflight
     ELSE IF ~Truthy(name)
       THEN /\ last' = Response("upload", s, name, 400, [message |-> "Document name is required"])
            /\ UNCHANGED inflight
     ELSE IF NameTaken(user, name)
       THEN /\ last' = Response("upload", s, name, 400,
                                [message |-> "Document with this name already exists"])
            /\ UNCHANGED inflight
     ELSE /\ inflight' = [inflight EXCEPT ![s] =
                            [op |-> "upload", user |-> user, file |-> file, name |-> name]]
          /\ UNCHANGED last
  /\ UNCHANGED <<users, documents, accessRequests, currentId, sessions, history>>

\* mutant of UploadWrite: the name is checked again when the record is written
UploadWrite_Recheck(s) ==
  LET req == inflight[s]
      id == currentId.documents
  IN
  /\ req.op = "upload"
  /\ IF NameTaken(req.user, req.name)
       THEN /\ last' = Response("upload", s, req.name, 400,
                                [message |-> "Document with this name already exists"])
            /\ UNCHANGED <<documents, currentId>>
       ELSE /\ id <= MaxDocs
            /\ documents' = createDocument(documents, id,
                               [userId |-> req.user, name |-> req.name,
                                content |-> toBase64(req.file), contentType |-> mimetype(req.file)])
            /\ currentId' = [currentId EXCEPT !.documents = @ + 1]
            /\ last' = Response("upload", s, req.name, 201, MapGet(documents', id))
  /\ inflight' = [inflight EXCEPT ![s] = Idle]
  /\ UNCHANGED <<users, accessRequests, sessions, history>>

\* POST /api/documents from await storage.createDocument to the response
UploadWrite(s) ==
  LET req == inflight[s]
      id == currentId.documents
  IN
  /\ req.op = "upload"
  /\ id <= MaxDocs
  /\ documents' = createDocument(documents, id,
                     [userId |-> req.user, name |-> req.name,
                      content |-> toBase64(req.file), contentType |-> mimetype(req.file)])
  /\ currentId' = [currentId EXCEPT !.documents = @ + 1]
  /\ last' = Response("upload", s, req.name, 201, MapGet(documents', id))
  /\ inflight' = [inflight EXCEPT ![s] = Idle]
  /\ UNCHANGED <<users, accessRequests, sessions, history>>

\* PATCH /api/documents/:id up to await storage.getDocument and the owner check
RenameLoad(s, id, name) ==
  LET user == sessions[s].user
      document == getDocument(id)
  IN
  /\ inflight[s] = Idle
  /\ IF user = NoId
       THEN /\ last' = Response("rename", s, <<id, name>>, 401, << >>)
            /\ UNCHANGED inflight
     ELSE IF document.id = NoId \/ document.userId # user
       THEN /\ last' = Response("rename", s, <<id, name>>, 404, << >>)
            /\ UNCHANGED inflight
     ELSE /\ inflight' = [inflight EXCEPT ![s] =
                            [op |-> IF Truthy(name) /\ name # document.name
                                      THEN "renameCheck" ELSE "renameWrite",
                             user |-> user, document |-> document, name |-> name]]
          /\ UNCHANGED last
  /\ UNCHANGED <<users, documents, accessRequests, currentId, sessions, history>>

\* PATCH /api/documents/:id: await storage.getDocuments and the name check
RenameCheck(s) ==
  LET req == inflight[s] IN
  /\ req.op = "renameCheck"
  /\ IF NameTaken(req.user, req.name)
       THEN /\ last' = Response("rename", s, <<req.document.id, req.name>>, 400,
                                [message |-> "Document with this name already exists"])
            /\ inflight' = [inflight EXCEPT ![s] = Idle]
       ELSE /\ inflight' = [inflight EXCEPT ![s].op = "renameWrite"]
            /\ UNCHANGED last
  /\ UNCHANGED <<users, documents, accessRequests, currentId, sessions, history>>

\* mutant of RenameWrite: the record the handler loaded is written back
RenameWrite_Upsert(s) ==
  LET req == inflight[s] IN
  /\ req.op = "renameWrite"
  /\ documents' = MapSet(documents, [req.document EXCEPT !.name = req.name])
  /\ last' = Response("rename", s, <<req.document.id, req.name>>, 200,
                      MapGet(documents', req.document.id))
  /\ inflight' = [inflight EXCEPT ![s] = Idle]
  /\ UNCHANGED <<users, accessRequests, currentId, sessions, history>>

\* PATCH /api/documents/:id from await storage.updateDocument to the response
RenameWrite(s) ==
  LET req == inflight[s] IN
  /\ req.op = "renameWrite"
  /\ IF ~MapHas(documents, req.document.id)
       \* updateDocument throws "Document not found"
       THEN /\ last' = Response("rename", s, <<req.document.id, req.name>>, NoResponse, << >>)
            /\ UNCHANGED documents
       ELSE /\ documents' = updateDocument(documents, req.document.id, req.name)
            /\ last' = Response("rename", s, <<req.document.id, req.name>>, 200,
                                MapGet(documents', req.document.id))
  /\ inflight' = [inflight EXCEPT ![s] = Idle]
  /\ UNCHANGED <<users, accessRequests, currentId, sessions, history>>

\* DELETE /api/documents/:id up to await storage.getDocument and the owner check
DeleteLoad(s, id) ==
  LET user == sessions[s].user
      document == getDocument(id)
  IN
  /\ inflight[s] = Idle
  /\ IF user = NoId
       THEN /\ last' = Response("delete", s, id, 401, << >>)
            /\ UNCHANGED inflight
     ELSE IF document.id = NoId \/ document.userId # user
       THEN /\ last' = Response("delete", s, id, 404, << >>)
            /\ UNCHANGED inflight
     ELSE /\ inflight' = [inflight EXCEPT ![s] = [op |-> "deleteWrite", document |-> document]]
          /\ UNCHANGED last
  /\ UNCHANGED <<users, documents, accessRequests, currentId, sessions, history>>

\* DELETE /api/documents/:id from await storage.deleteDocument to the response
DeleteWrite(s) ==
  LET req == inflight[s] IN
  /\ req.op = "deleteWrite"
  /\ documents' = deleteDocument(documents, req.document.id)
  /\ last' = Response("delete", s, req.document.id, 204, << >>)
  /\ inflight' = [inflight EXCEPT ![s] = Idle]
  /\ UNCHANGED <<users, accessRequests, currentId, sessions, history>>

\* ---------------------------------------------------------- specification
Next ==
  \E s \in Sessions :
    \/ \E pin \in Pins : Register(s, pin)
    \/ \E userId \in UserIds, pin \in Pins : Login(s, userId, pin)
    \/ Logout(s)
    \/ \E userId \in UserIds, pin \in Pins : VerifyPin(s, userId, pin)
    \/ \E userId \in UserIds : ListDocumentsOf(s, userId)
    \/ ListDocuments(s)
    \/ \E file \in Files \cup {UNDEF}, name \in BodyNames : Upload(s, file, name)
    \/ \E id \in DocIds, name \in BodyNames : Rename(s, id, name)
    \/ \E id \in DocIds : Delete(s, id)
    \/ \E id \in DocIds : View(s, id)
    \/ \E id \in DocIds : Download(s, id)
    \/ \E body \in RequestBodies, userAgent \in UserAgents : CreateAccessRequest(s, body, userAgent)
    \/ ListAccessRequests(s)
    \/ \E id \in ReqIds, status \in BodyStatuses : Transition(s, id, status)

Spec == Init /\ [][Next]_vars

\* The handlers that read documents, driven by one visitor: registration,
\* login, PIN verification, upload, listing, view and download.
ReadSessions == {"s1"}
ReadUploads == {[file |-> "f1", name |-> "a"], [file |-> "f2", name |-> "b"]}

NextRead ==
  \E s \in ReadSessions :
    \/ \E pin \in Pins : Register(s, pin)
    \/ \E userId \in UserIds, pin \in Pins : Login(s, userId, pin)
    \/ Logout(s)
    \/ \E userId \in UserIds, pin \in Pins : VerifyPin(s, userId, pin)
    \/ \E userId \in UserIds : ListDocumentsOf(s, userId)
    \/ ListDocuments(s)
    \/ \E up \in ReadUploads : Upload(s, up.file, up.name)
    \/ \E id \in DocIds : View(s, id)
    \/ \E id \in DocIds : Download(s, id)

SpecRead == Init /\ [][NextRead]_vars

\* PIN elevation over time, driven by one visitor: every handler that
\* touches the session or reads a document, with access requests created and
\* approved in between.
ElevationBody == [userId |-> 1, hasDocs |-> TRUE, requestedDocuments |-> <<"all">>,
                  status |-> UNDEF, location |-> UNDEF]

NextElevation ==
  \E s \in ReadSessions :
    \/ \E pin \in Pins : Register(s, pin)
    \/ \E userId \in UserIds, pin \in Pins : Login(s, userId, pin)
    \/ Logout(s)
    \/ \E userId \in UserIds, pin \in Pins : VerifyPin(s, userId, pin)
    \/ Upload(s, "f1", "a")
    \/ \E id \in DocIds : View(s, id)
    \/ \E id \in DocIds : Download(s, id)
    \/ CreateAccessRequest(s, ElevationBody, "ua")
    \/ \E id \in ReqIds : Transition(s, id, "approved")

SpecElevation == Init /\ [][NextElevation]_vars

\* PIN verification with two visitors and no documents.
NextPin ==
  \E s \in Sessions :
    \/ \E pin \in Pins : Register(s, pin)
    \/ \E userId \in UserIds, pin \in Pins : Login(s, userId, pin)
    \/ Logout(s)
    \/ \E userId \in UserIds, pin \in Pins : VerifyPin(s, userId, pin)

SpecPin == Init /\ [][NextPin]_vars

\* The document store, driven by one visitor that logs in as either owner.
NextDocs ==
  \E s \in ReadSessions :
    \/ Register(s, "1111")
    \/ \E userId \in UserIds : Login(s, userId, "1111")
    \/ Logout(s)
    \/ ListDocuments(s)
    \/ \E file \in {UNDEF, "f1"}, name \in BodyNames : Upload(s, file, name)
    \/ \E id \in DocIds, name \in BodyNames : Rename(s, id, name)
    \/ \E id \in DocIds : Delete(s, id)

SpecDocs == Init /\ [][NextDocs]_vars

\* The access-request lifecycle with two visitors.
LifecycleBodies ==
  [userId : {NoId} \cup (1..MaxUsers), hasDocs : BOOLEAN, requestedDocuments : {<<"all">>},
   status : {UNDEF, "approved"}, location : {UNDEF}]

LifecycleStatuses == {"approved", "denied", "bogus"}

NextRequests ==
  \E s \in Sessions :
    \/ Register(s, "1111")
    \/ \E userId \in UserIds : Login(s, userId, "1111")
    \/ Logout(s)
    \/ \E body \in LifecycleBodies : CreateAccessRequest(s, body, "ua")
    \/ ListAccessRequests(s)
    \/ \E id \in ReqIds, status \in LifecycleStatuses : Transition(s, id, status)

SpecRequests == Init /\ [][NextRequests]_vars

\* Ownership of the document store, driven by one visitor that logs in,
\* verifies PINs, uploads, renames and deletes.
NextOwner ==
  \E s \in ReadSessions :
    \/ Register(s, "1111")
    \/ \E userId \in UserIds : Login(s, userId, "1111")
    \/ Logout(s)
    \/ \E userId \in UserIds : VerifyPin(s, userId, "1111")
    \/ \E name \in Names : Upload(s, "f1", name)
    \/ \E id \in DocIds, name \in Names : Rename(s, id, name)
    \/ \E id \in DocIds : Delete(s, id)

SpecOwner == Init /\ [][NextOwner]_vars

\* The access-request records, driven by one visitor: every form of the
\* creation body, transitions in both directions, and a document upload.
AuditBodies ==
  [userId : {NoId, 1}, hasDocs : BOOLEAN, requestedDocuments : DocLists,
   status : {UNDEF}, location : Locations]
AuditStatuses == {"approved", "denied"}

NextAudit ==
  \E s \in ReadSessions :
    \/ Register(s, "1111")
    \/ \E userId \in UserIds : Login(s, userId, "1111")
    \/ Upload(s, "f1", "a")
    \/ \E body \in AuditBodies, userAgent \in UserAgents : CreateAccessRequest(s, body, userAgent)
    \/ ListAccessRequests(s)
    \/ \E id \in ReqIds, status \in AuditStatuses : Transition(s, id, status)

SpecAudit == Init /\ [][NextAudit]_vars

\* Concurrent uploads and renames of two visitors logged in as one owner:
\* the handlers run await by await and interleave.
RaceOwners == {1}

NextRace ==
  \E s \in Sessions :
    \/ Register(s, "1111")
    \/ \E userId \in RaceOwners : Login(s, userId, "1111")
    \/ \E name \in Names : UploadCheck(s, "f1", name)
    \/ UploadWrite(s)
    \/ \E id \in DocIds, name \in Names : RenameLoad(s, id, name)
    \/ RenameCheck(s)
    \/ RenameWrite(s)

SpecRace == Init /\ [][NextRace]_vars

\* Deletes that interleave with renames, views and later uploads, by two
\* visitors logged in as one owner.
NextDeleted ==
  \E s \in Sessions :
    \/ Register(s, "1111")
    \/ \E userId \in RaceOwners : Login(s, userId, "1111")
    \/ \E name \in Names : Upload(s, "f1", name)
    \/ \E id \in DocIds : RenameLoad(s, id, "b")
    \/ RenameCheck(s)
    \/ RenameWrite(s)
    \/ \E id \in DocIds : DeleteLoad(s, id)
    \/ DeleteWrite(s)
    \/ \E id \in DocIds : View(s, id)
    \/ \E id \in DocIds : Download(s, id)

SpecDeleted == Init /\ [][NextDeleted]_vars

\* ================================================================ claims
StoredDocuments == {documents[i] : i \in 1..Len(documents)}
StoredRequests == {accessRequests[i] : i \in 1..Len(accessRequests)}

\* the read rule of the specification: an identity the session holds equals
\* the owner of the document
CanRead(session, doc) ==
  \/ session.user # NoId /\ session.user = doc.userId
  \/ session.verifiedUserId # NoId /\ session.verifiedUserId = doc.userId

IsFetch(r) == r.op \in {"view", "download"}

\* C1: a view or download returns the content of the document it names if
\* and only if that document is stored and the session is authenticated as,
\* or PIN-verified for, its owner; every other request is denied (401).
C1_ReadIffCanRead ==
  IsFetch(last) =>
    IF \E d \in StoredDocuments : d.id = last.arg /\ CanRead(sessions[last.sess], d)
      THEN /\ last.status = 200
           /\ \A d \in StoredDocuments :
                d.id = last.arg => toBase64(last.body.content) = d.content
      ELSE last.status = 401

\* a view granted by the PIN elevation alone
C1_Witness ==
  /\ last.op = "view" /\ last.status = 200
  /\ \E d \in StoredDocuments :
       /\ d.id = last.arg
       /\ sessions[last.sess].user # d.userId
       /\ sessions[last.sess].verifiedUserId = d.userId

\* C2: a session that is not authenticated as B and has never verified the
\* PIN of B is denied every view and download of a document owned by B,
\* whatever other target it has verified.
C2_ElevationIsTargetScoped ==
  IsFetch(last) =>
    \A d \in StoredDocuments :
      (/\ d.id = last.arg
       /\ sessions[last.sess].user # d.userId
       /\ d.userId \notin everVerified[last.sess]) => last.status = 401

\* a session verified for A alone is denied a document of B
C2_Witness ==
  /\ IsFetch(last) /\ last.status = 401
  /\ \E d \in StoredDocuments :
       /\ d.id = last.arg
       /\ sessions[last.sess].user = NoId
       /\ everVerified[last.sess] # {}
       /\ d.userId \notin everVerified[last.sess]

\* the response r carries the content of the stored document d
Discloses(r, d) ==
  \/ IsFetch(r) /\ r.status = 200 /\ r.arg = d.id
  \/ /\ r.op \in {"listDocumentsOf", "listDocuments"} /\ r.status = 200
     /\ \E i \in 1..Len(r.body) :
          r.body[i].id = d.id /\ "content" \in DOMAIN r.body[i]
  \/ /\ r.op \in {"upload", "rename"} /\ r.status \in {200, 201}
     /\ r.body.id = d.id /\ "content" \in DOMAIN r.body

\* C3: no response carries the content of a document to a session that may
\* not read it; the public listing carries name, id and contentType only.
C3_NoContentWithoutCanRead ==
  \A d \in StoredDocuments : Discloses(last, d) => CanRead(sessions[last.sess], d)

\* C4: no two stored documents of one owner have the same name.
C4_UniqueNames ==
  \A i, j \in 1..Len(documents) :
    (i # j /\ documents[i].userId = documents[j].userId)
      => documents[i].name # documents[j].name

\* C5: the status of a stored access request changes only in a transition
\* issued by a session authenticated as the target user of that request.
C5_OnlyTargetTransitions ==
  [][\A i \in 1..Len(accessRequests) :
       accessRequests'[i].status # accessRequests[i].status
         => /\ last'.op = "transition"
            /\ sessions[last'.sess].user = accessRequests[i].userId]_vars

\* C6: the status of every stored access request is pending, approved or
\* denied.
C6_StatusDomain ==
  \A r \in StoredRequests : r.status \in {"pending", "approved", "denied"}

\* C7: a creation succeeds for every body that names a target and the
\* requested documents, whoever the caller is and whether or not the target
\* exists, and the request it stores and returns has status pending.
C7_CreatedPending ==
  last.op = "createAccessRequest" =>
    /\ last.status = 201 <=> (last.arg.userId # NoId /\ last.arg.hasDocs)
    /\ last.status # 201 => last.status = 400
    /\ last.status = 201 =>
         /\ last.body.status = "pending"
         /\ \E r \in StoredRequests : r.id = last.body.id /\ r.status = "pending"

\* an unauthenticated caller created a request for a target that does not
\* exist, with a status of its own in the body
C7_Witness ==
  /\ last.op = "createAccessRequest" /\ last.status = 201
  /\ last.arg.status = "approved"
  /\ sessions[last.sess].user = NoId
  /\ getUser(last.arg.userId).id = NoId

\* C8: the list of an authenticated owner holds exactly the stored requests
\* whose target is that owner, as they are stored, in the order of their
\* creation (ascending id).
C8_ListExactInCreationOrder ==
  (last.op = "listAccessRequests" /\ last.status = 200) =>
    /\ {last.body[i] : i \in 1..Len(last.body)}
         = {r \in StoredRequests : r.userId = sessions[last.sess].user}
    /\ \A i, j \in 1..Len(last.body) : i < j => last.body[i].id < last.body[j].id

\* a list of two requests, the older of which has been transitioned, while
\* the other has not
C8_Witness ==
  /\ last.op = "listAccessRequests" /\ last.status = 200
  /\ Len(last.body) = 2
  /\ last.body[1].status = "denied"
  /\ last.body[2].status = "pending"

\* C9: once a session has verified the PIN of A, each of its views and
\* downloads of a stored document of A succeeds.
C9_ElevationPersists ==
  IsFetch(last) =>
    \A d \in StoredDocuments :
      (d.id = last.arg /\ d.userId \in everVerified[last.sess]) => last.status = 200

\* C9 (amended): a view or download of a stored document of A succeeds when
\* A is the target of the latest successful PIN verification of the session.
C9_LatestElevationPersists ==
  IsFetch(last) =>
    \A d \in StoredDocuments :
      (d.id = last.arg /\ d.userId = lastVerified[last.sess]) => last.status = 200

\* a granted fetch by a session that is not the owner, whose latest verified
\* target is the owner and that had verified another target before, with an
\* access request stored
C9_Witness ==
  /\ IsFetch(last) /\ last.status = 200
  /\ accessRequests # << >>
  /\ \E d \in StoredDocuments :
       /\ d.id = last.arg
       /\ sessions[last.sess].user # d.userId
       /\ lastVerified[last.sess] = d.userId
       /\ everVerified[last.sess] # {d.userId}

\* C10: a verifyPin call for an existing target whose candidate PIN does not
\* match answers isValid = false and changes no session and no stored record.
C10_FailedVerifyPinChangesNothing ==
  [][(/\ last'.op = "verifyPin"
      /\ getUser(last'.arg[1]).id # NoId
      /\ getUser(last'.arg[1]).pin # Hash(last'.arg[2]))
       => /\ last'.status = 200
          /\ last'.body.isValid = FALSE
          /\ sessions' = sessions
          /\ <<users, documents, accessRequests, currentId>>'
               = <<users, documents, accessRequests, currentId>>]_vars

\* a failed verifyPin by an authenticated session that keeps an earlier
\* elevation, while the other session is elevated too
C10_Witness ==
  /\ last.op = "verifyPin" /\ last.status = 200 /\ ~last.body.isValid
  /\ sessions[last.sess].user # NoId
  /\ sessions[last.sess].verifiedUserId # NoId
  /\ \E s \in Sessions \ {last.sess} : sessions[s].verifiedUserId # NoId

\* C11: a verifyPin call for a target that is not a stored user answers 404
\* "User not found", which is not the answer to a wrong PIN (200 with
\* isValid = false), and changes no session.
C11_UnknownTargetIsNotFound ==
  [][(last'.op = "verifyPin" /\ ~MapHas(users, last'.arg[1]))
       => /\ last'.status = 404
          /\ last'.body = [message |-> "User not found"]
          /\ last'.status # 200 /\ "isValid" \notin DOMAIN last'.body
          /\ sessions' = sessions]_vars

\* a not-found answer to a session that keeps its login and its elevation
C11_Witness ==
  /\ last.op = "verifyPin" /\ last.status = 404
  /\ ~MapHas(users, last.arg[1])
  /\ sessions[last.sess].user # NoId
  /\ sessions[last.sess].verifiedUserId # NoId

\* the stored access request r asks for the document d (all documents of
\* the owner of d)
AsksFor(r, d) == r.userId = d.userId /\ r.requestedDocuments = <<"all">>

\* C12: the outcome of a view or download does not depend on the stored
\* access requests: with requests stored, pending or approved, a session
\* that may read the document is served and a session that may not is
\* denied, also when an approved request names the document.
C12_ReadIgnoresAccessRequests ==
  (IsFetch(last) /\ accessRequests # << >>) =>
    \A d \in StoredDocuments :
      d.id = last.arg =>
        /\ CanRead(sessions[last.sess], d) => last.status = 200
        /\ ~CanRead(sessions[last.sess], d) => last.status = 401
        /\ (/\ \E r \in StoredRequests : AsksFor(r, d) /\ r.status = "approved"
            /\ ~CanRead(sessions[last.sess], d)) => last.status = 401

\* a fetch denied although an approved request names the document
C12_Witness ==
  /\ IsFetch(last) /\ last.status = 401
  /\ \E d \in StoredDocuments :
       /\ d.id = last.arg
       /\ \E r \in StoredRequests : AsksFor(r, d) /\ r.status = "approved"

\* C15: a view or download of an id that is not stored and one of a stored
\* document the session may not read get the same answer, 401 "Unauthorized
\* access", and never a not-found.
C15_DenialHidesExistence ==
  IsFetch(last) =>
    /\ last.status \in {200, 401}
    /\ (\/ ~MapHas(documents, last.arg)
        \/ \E d \in StoredDocuments : d.id = last.arg /\ ~CanRead(sessions[last.sess], d))
         => /\ last.status = 401
            /\ last.body = [message |-> "Unauthorized access"]

\* a logged-in session is denied an id that is not stored, while documents
\* of another owner are
C15_Witness ==
  /\ IsFetch(last) /\ last.status = 401
  /\ ~MapHas(documents, last.arg)
  /\ sessions[last.sess].user # NoId
  /\ \E d \in StoredDocuments : ~CanRead(sessions[last.sess], d)

\* the document id a rename or delete request r addresses
TargetId(r) == IF r.op = "rename" THEN r.arg[1] ELSE r.arg

\* C13: a rename or delete by a session that is not authenticated as the
\* owner of the document it addresses (no login, another user's login, or
\* only a PIN elevation for the owner) fails with 401 or 404 and leaves the
\* document store as it was.
C13_RenameDeleteOwnerOnly ==
  [][(/\ last'.op \in {"rename", "delete"}
      /\ ~\E d \in StoredDocuments :
            /\ d.id = TargetId(last')
            /\ sessions[last'.sess].user # NoId
            /\ sessions[last'.sess].user = d.userId)
       => /\ documents' = documents
          /\ last'.status \in {401, 404}]_vars

\* a rename or delete refused to a session that holds only the PIN elevation
\* for the owner of the document
C13_Witness ==
  /\ last.op \in {"rename", "delete"} /\ last.status = 401
  /\ \E d \in StoredDocuments :
       /\ d.id = TargetId(last)
       /\ sessions[last.sess].user = NoId
       /\ sessions[last.sess].verifiedUserId = d.userId

\* C19: every stored document has a defined, non-empty name.
C19_NamesDefined ==
  \A d \in StoredDocuments : d.name # UNDEF /\ d.name # ""

\* C14: a creation is accepted only with a target user id and a non-empty
\* requestedDocuments; every other body is rejected with 400 and stores
\* nothing.
C14_CreateValidates ==
  /\ last.op = "createAccessRequest" =>
       (last.status = 201 <=> (/\ last.arg.userId # NoId
                               /\ last.arg.hasDocs
                               /\ last.arg.requestedDocuments # << >>))
  /\ \A r \in StoredRequests : r.requestedDocuments # << >>

\* C17: no step removes an access request or changes any field of one but
\* its status; a step that changes a status is the transition of that very
\* request and changes no other request, no document and no session.
C17_AuditTrail ==
  [][/\ Len(accessRequests') >= Len(accessRequests)
     /\ \A i \in 1..Len(accessRequests) :
          /\ [accessRequests'[i] EXCEPT !.status = accessRequests[i].status]
               = accessRequests[i]
          /\ accessRequests'[i] # accessRequests[i]
               => /\ last'.op = "transition"
                  /\ last'.arg[1] = accessRequests[i].id
                  /\ \A j \in 1..Len(accessRequests) :
                       j # i => accessRequests'[j] = accessRequests[j]
                  /\ Len(accessRequests') = Len(accessRequests)
                  /\ documents' = documents
                  /\ sessions' = sessions]_vars

\* a transition of the second of two stored requests, whose device
\* information was defaulted, with a document stored
C17_Witness ==
  /\ last.op = "transition" /\ last.status = 200
  /\ Len(accessRequests) = 2 /\ documents # << >>
  /\ last.arg[1] = 2
  /\ accessRequests[2].status = "approved"
  /\ accessRequests[2].requesterInfo.deviceInfo = "Unknown device"
  /\ accessRequests[1].status = "pending"

\* C18: a transition by the authenticated target user succeeds and stores
\* the new status whatever status the request has, also when it is already
\* approved or denied.
C18_NoTerminalGuard ==
  [][(/\ last'.op = "transition"
      /\ \E r \in StoredRequests :
           /\ r.id = last'.arg[1]
           /\ r.userId = sessions[last'.sess].user
           /\ r.status \in {"approved", "denied"})
       => /\ last'.status = 200
          /\ \E r \in {accessRequests'[i] : i \in 1..Len(accessRequests')} :
               r.id = last'.arg[1] /\ r.status = last'.arg[2]]_vars

\* an approved request has been transitioned to denied by its target user
C18_Witness ==
  /\ last.op = "transition" /\ last.status = 200
  /\ last.arg[3] = "approved" /\ last.arg[2] = "denied"
  /\ \E r \in StoredRequests :
       /\ r.id = last.arg[1] /\ r.status = "denied"
       /\ r.userId = sessions[last.sess].user

DocumentsAfter == {documents'[i] : i \in 1..Len(documents')}

\* C16: the name check is not repeated when the record is written: an
\* upload, or a rename of a stored document, that has passed its check
\* writes its name and answers 201 or 200 whatever has been written since.
C16_WriteAfterCheckAlwaysSucceeds ==
  [][\A s \in Sessions :
       /\ (inflight[s].op = "upload" /\ inflight'[s] = Idle)
            => /\ last'.op = "upload" /\ last'.status = 201
               /\ \E d \in DocumentsAfter :
                    /\ d.id = last'.body.id /\ d.name = inflight[s].name
                    /\ d.userId = inflight[s].user
       /\ (/\ inflight[s].op = "renameWrite" /\ inflight'[s] = Idle
           /\ MapHas(documents, inflight[s].document.id))
            => /\ last'.op = "rename" /\ last'.status = 200
               /\ \E d \in DocumentsAfter :
                    d.id = inflight[s].document.id /\ d.name = inflight[s].name]_vars

\* two stored documents of one owner with the same name
C16_Witness ==
  \E i, j \in 1..Len(documents) :
    /\ i # j
    /\ documents[i].userId = documents[j].userId
    /\ documents[i].name = documents[j].name
    /\ documents[i].name \in Names

\* C20: a document id that has been assigned and is no longer stored is
\* never stored again, by the write of a rename that was waiting when the
\* document was deleted or by a later upload, and every view of it is denied.
C20_DeletedStaysDeleted ==
  [][/\ \A id \in DocIds :
          (id < currentId.documents /\ ~MapHas(documents, id)) => ~MapHas(documents', id)
     /\ currentId'.documents >= currentId.documents
     /\ (IsFetch(last') /\ ~MapHas(documents, last'.arg)) => last'.status = 401]_vars

\* the write of a rename that was waiting during the delete of its document
\* has failed, and the document is not stored
C20_Witness ==
  /\ last.op = "rename" /\ last.status = NoResponse
  /\ last.arg[1] < currentId.documents
  /\ ~MapHas(documents, last.arg[1])

====
